---- MODULE Spec2Model ----
(***************************************************************************)
(* Model of MessageStream::parse_comma_separared and its ListParser        *)
(* (src/parsers/fields/list.rs).                                           *)
(*                                                                         *)
(* Text is a sequence of one-character strings.  One action of the model   *)
(* is one iteration of the `while let Some(ch) = self.next()` loop, or the *)
(* exit of that loop at end of input.                                      *)
(*                                                                         *)
(* Every fragment of `tokens` and every element of `list` carries, beside  *)
(* its text, where it came from (kind, from, to / frags).  These fields    *)
(* are history: no operation reads them.  `attempts` is history too: the   *)
(* offset of every '=' handed to the decoder, and whether it decoded.      *)
(***************************************************************************)
EXTENDS Integers, Sequences, FiniteSets

VARIABLES stream, parser, result, pc, attempts

vars == <<stream, parser, result, pc, attempts>>

----------------------------------------------------------------------------
(* Bounds and the inputs                                                   *)

MaxChunks == 3

SP == " "
TAB == "\t"
LF == "\n"
CR == "\r"

Whitespace == {SP, TAB}

\* The pieces an input is made of: a byte of every class the scan
\* distinguishes, and four longer pieces (a fold after a space, as in the
\* test's "multi \r\n list", a well-formed encoded word,
\* an encoded word with an empty payload, an encoded word that never ends).
Chunks ==
    { <<"a">>, <<SP>>, <<TAB>>, <<LF>>, <<CR>>, <<",">>, <<"=">>,
      <<SP, LF, SP>>,
      <<"=", "?", "a", "?", "=">>,
      <<"=", "?", "?", "=">>,
      <<"=", "?", "a">> }

\* An input either stops where its last piece stops or ends in a line break.
Tails == { <<>>, <<LF>> }

RECURSIVE Flatten(_)
Flatten(cs) == IF cs = <<>> THEN <<>> ELSE Head(cs) \o Flatten(Tail(cs))

ChunkSeqs == UNION { [1..n -> Chunks] : n \in 0..MaxChunks }

Inputs == { Flatten(cs) \o t : cs \in ChunkSeqs, t \in Tails }

Min(S) == CHOOSE x \in S : \A y \in S : x <= y

----------------------------------------------------------------------------
(* MessageStream: the byte cursor                                          *)

None == "None"

MessageStream_new(data) == [data |-> data, pos |-> 0, restore_pos |-> 0]

\* self.next(): the byte after the cursor, and the cursor moved past it.
next(s) ==
    IF s.pos < Len(s.data)
    THEN [ch |-> s.data[s.pos + 1], stream |-> [s EXCEPT !.pos = s.pos + 1]]
    ELSE [ch |-> None, stream |-> s]

peek_char(s, ch) == s.pos < Len(s.data) /\ s.data[s.pos + 1] = ch

checkpoint(s) == [s EXCEPT !.restore_pos = s.pos]

restore(s) == [s EXCEPT !.pos = s.restore_pos]

offset(s) == s.pos

\* After a line break: is the next byte a space or a tab?  If so it is consumed.
try_next_is_space(s) ==
    IF s.pos < Len(s.data) /\ s.data[s.pos + 1] \in Whitespace
    THEN [is_space |-> TRUE, stream |-> [s EXCEPT !.pos = s.pos + 1]]
    ELSE [is_space |-> FALSE, stream |-> s]

----------------------------------------------------------------------------
(* The encoded-word decoder                                                *)

\* The payload byte "a" stands for an encoded byte whose decoded text differs
\* from its raw form; every other payload byte decodes to itself.
DecodeByte(b) == IF b = "a" THEN "A" ELSE b

\* Called with the cursor just past '=' and a '?' next.  "=?" payload "?="
\* stands for "=?charset?encoding?payload?=".  The payload runs to the first
\* '?', which must be followed by '='; a line break or the end of the input
\* before that is a failure, and a failure leaves the cursor where the
\* decoder stopped.
decode_rfc2047(s) ==
    LET data == s.data
        n == Len(data)
        start == s.pos + 2
        stops == { q \in start..n : data[q] \in {"?", LF} }
    IN  IF stops = {}
        THEN [ok |-> FALSE, token |-> <<>>, stream |-> [s EXCEPT !.pos = n]]
        ELSE LET q == Min(stops)
             IN  IF data[q] = "?" /\ q < n /\ data[q + 1] = "="
                 THEN [ok |-> TRUE,
                       token |-> [i \in 1..(q - start) |-> DecodeByte(data[start + i - 1])],
                       stream |-> [s EXCEPT !.pos = q + 1]]
                 ELSE [ok |-> FALSE, token |-> <<>>, stream |-> [s EXCEPT !.pos = q]]

----------------------------------------------------------------------------
(* ListParser                                                              *)

ListParser_new ==
    [token_start |-> 0, token_end |-> 0, is_token_start |-> TRUE,
     tokens |-> <<>>, list |-> <<>>]

SpaceFragment == [text |-> <<SP>>, kind |-> "space", from |-> 0, to |-> 0]

WordFragment(data, from, to) ==
    [text |-> SubSeq(data, from, to), kind |-> "word", from |-> from, to |-> to]

EncodedFragment(text, from, to) ==
    [text |-> text, kind |-> "enc", from |-> from, to |-> to]

RECURSIVE concat(_)
concat(frags) == IF frags = <<>> THEN <<>> ELSE Head(frags).text \o concat(Tail(frags))

\* add_token that pushes the trailing space whether or not it was asked for.
add_token_always_space(p, s, add_space) ==
    IF p.token_start > 0
    THEN LET t1 == IF p.tokens # <<>> THEN Append(p.tokens, SpaceFragment) ELSE p.tokens
             t2 == Append(t1, WordFragment(s.data, p.token_start, p.token_end))
             t3 == Append(t2, SpaceFragment)
         IN  [p EXCEPT !.tokens = t3, !.token_start = 0, !.is_token_start = TRUE]
    ELSE p

add_token(p, s, add_space) ==
    IF p.token_start > 0
    THEN LET t1 == IF p.tokens # <<>> THEN Append(p.tokens, SpaceFragment) ELSE p.tokens
             t2 == Append(t1, WordFragment(s.data, p.token_start, p.token_end))
             t3 == IF add_space THEN Append(t2, SpaceFragment) ELSE t2
         IN  [p EXCEPT !.tokens = t3, !.token_start = 0, !.is_token_start = TRUE]
    ELSE p

\* add_tokens_to_list without the tokens.clear() after the concat.
add_tokens_to_list_no_clear(p) ==
    IF p.tokens # <<>>
    THEN IF Len(p.tokens) = 1
         THEN [p EXCEPT !.list = Append(p.list, [text |-> p.tokens[1].text,
                                                 frags |-> p.tokens]),
                        !.tokens = <<>>]
         ELSE [p EXCEPT !.list = Append(p.list, [text |-> concat(p.tokens),
                                                 frags |-> p.tokens])]
    ELSE p

add_tokens_to_list(p) ==
    IF p.tokens # <<>>
    THEN LET value == IF Len(p.tokens) = 1 THEN p.tokens[1].text ELSE concat(p.tokens)
         IN  [p EXCEPT !.list = Append(p.list, [text |-> value, frags |-> p.tokens]),
                       !.tokens = <<>>]
    ELSE p

----------------------------------------------------------------------------
(* HeaderValue and the loop body                                           *)

NoResult == [shape |-> "None", values |-> <<>>]
Empty == [shape |-> "Empty", values |-> <<>>]
Text(v) == [shape |-> "Text", values |-> <<v>>]
TextList(l) == [shape |-> "TextList", values |-> l]

\* A state of the call, as a record.
St(s, p, r, c) == [stream |-> s, parser |-> p, result |-> r, pc |-> c]

\* match parser.list.len() { 1 => Text(list.pop()), 0 => Empty, _ => TextList(list) }
shape_result(s, p) ==
    IF Len(p.list) = 1
    THEN St(s, [p EXCEPT !.list = <<>>], Text(p.list[1]), "ret_newline")
    ELSE IF Len(p.list) = 0
         THEN St(s, p, Empty, "ret_newline")
         ELSE St(s, p, TextList(p.list), "ret_newline")

\* on_newline that takes any byte after the line break for a continuation.
on_newline_any_byte(s, p) ==
    LET p1 == add_token(p, s, FALSE)
    IN  IF ~(s.pos < Len(s.data))
        THEN shape_result(s, add_tokens_to_list(p1))
        ELSE St(s, p1, NoResult, "scan")

\* on_newline that flushes the tokens into the list before it looks for a fold.
on_newline_flush_first(s, p) ==
    LET p1 == add_tokens_to_list(add_token(p, s, FALSE))
        sp == try_next_is_space(s)
    IN  IF ~sp.is_space
        THEN shape_result(sp.stream, p1)
        ELSE St(sp.stream, p1, NoResult, "scan")

\* b'\n': `s` is the stream after next().
on_newline(s, p) ==
    LET p1 == add_token(p, s, FALSE)
        sp == try_next_is_space(s)
    IN  IF ~sp.is_space
        THEN shape_result(sp.stream, add_tokens_to_list(p1))
        ELSE St(sp.stream, p1, NoResult, "scan")

\* b' ' | b'\t'
on_space(s, p) == St(s, [p EXCEPT !.is_token_start = TRUE], NoResult, "scan")

\* The code after the match: the byte is part of a word.
on_literal(s, p) ==
    LET ts == IF p.token_start = 0 THEN offset(s) ELSE p.token_start
    IN  St(s, [p EXCEPT !.is_token_start = FALSE, !.token_start = ts,
                        !.token_end = offset(s)], NoResult, "scan")

\* on_encoded_word with the decoded text pushed the way add_token pushes a
\* word: after a space when `tokens` is not empty.
on_encoded_word_spaced(s, p) ==
    LET s1 == checkpoint(s)
        d == decode_rfc2047(s1)
    IN  IF d.ok
        THEN LET p1 == add_token(p, d.stream, FALSE)
                 t1 == IF p1.tokens # <<>> THEN Append(p1.tokens, SpaceFragment)
                                           ELSE p1.tokens
                 frag == EncodedFragment(d.token, s.pos, d.stream.pos)
             IN  St(d.stream, [p1 EXCEPT !.tokens = Append(t1, frag)],
                    NoResult, "scan")
        ELSE on_literal(restore(d.stream), p)

\* on_encoded_word whose failure path puts the cursor back before the '='
\* and goes on with the loop.
on_encoded_word_rewind(s, p) ==
    LET s1 == checkpoint(s)
        d == decode_rfc2047(s1)
    IN  IF d.ok
        THEN LET p1 == add_token(p, d.stream, TRUE)
                 frag == EncodedFragment(d.token, s.pos, d.stream.pos)
             IN  St(d.stream, [p1 EXCEPT !.tokens = Append(p1.tokens, frag)],
                    NoResult, "scan")
        ELSE St([d.stream EXCEPT !.pos = s1.restore_pos - 1], p, NoResult, "scan")

\* on_encoded_word whose failure path opens the word at the offset the
\* decoder stopped at, and restores the cursor only then.
on_encoded_word_late_restore(s, p) ==
    LET s1 == checkpoint(s)
        d == decode_rfc2047(s1)
    IN  IF d.ok
        THEN LET p1 == add_token(p, d.stream, TRUE)
                 frag == EncodedFragment(d.token, s.pos, d.stream.pos)
             IN  St(d.stream, [p1 EXCEPT !.tokens = Append(p1.tokens, frag)],
                    NoResult, "scan")
        ELSE LET r == restore(d.stream)
                 ts == IF p.token_start = 0 THEN offset(d.stream) ELSE p.token_start
             IN  St(r, [p EXCEPT !.is_token_start = FALSE, !.token_start = ts,
                                 !.token_end = offset(r)], NoResult, "scan")

\* on_encoded_word without the restore() of the failure path.
on_encoded_word_no_restore(s, p) ==
    LET s1 == checkpoint(s)
        d == decode_rfc2047(s1)
    IN  IF d.ok
        THEN LET p1 == add_token(p, d.stream, TRUE)
                 frag == EncodedFragment(d.token, s.pos, d.stream.pos)
             IN  St(d.stream, [p1 EXCEPT !.tokens = Append(p1.tokens, frag)],
                    NoResult, "scan")
        ELSE on_literal(d.stream, p)

\* b'=' if parser.is_token_start && self.peek_char(b'?')
on_encoded_word(s, p) ==
    LET s1 == checkpoint(s)
        d == decode_rfc2047(s1)
    IN  IF d.ok
        THEN LET p1 == add_token(p, d.stream, TRUE)
                 frag == EncodedFragment(d.token, s.pos, d.stream.pos)
             IN  St(d.stream, [p1 EXCEPT !.tokens = Append(p1.tokens, frag)],
                    NoResult, "scan")
        ELSE on_literal(restore(d.stream), p)

\* b','
on_comma(s, p) ==
    St(s, add_tokens_to_list(add_token(p, s, FALSE)), NoResult, "scan")

\* on_cr without the b'\r' arm: the byte falls to the code after the match.
on_cr_literal(s, p) == on_literal(s, p)

\* b'\r'
on_cr(s, p) == St(s, p, NoResult, "scan")

\* self.next() returned None: the loop ends and line 117 returns Empty.
on_eof(s, p) == St(s, p, Empty, "ret_eof")

----------------------------------------------------------------------------
(* The state machine                                                       *)

\* The match of the loop body, as a function of the state.
step(s, p) ==
    LET n == next(s)
        ch == n.ch
        a == n.stream
    IN  CASE ch = None -> on_eof(a, p)
          [] ch = LF -> on_newline(a, p)
          [] ch \in Whitespace -> on_space(a, p)
          [] ch = "=" /\ p.is_token_start /\ peek_char(a, "?") -> on_encoded_word(a, p)
          [] ch = "," -> on_comma(a, p)
          [] ch = CR -> on_cr(a, p)
          [] OTHER -> on_literal(a, p)

RECURSIVE run(_)
run(t) == IF t.pc # "scan" THEN t ELSE run(step(t.stream, t.parser))

\* The value the call returns for an input.
parse_comma_separared(data) ==
    run(St(MessageStream_new(data), ListParser_new, NoResult, "scan")).result

Init ==
    /\ stream \in { MessageStream_new(d) : d \in Inputs }
    /\ parser = ListParser_new
    /\ result = NoResult
    /\ pc = "scan"
    /\ attempts = {}

Becomes(t) ==
    /\ stream' = t.stream
    /\ parser' = t.parser
    /\ result' = t.result
    /\ pc' = t.pc

Ch == next(stream).ch
Advanced == next(stream).stream

\* The match guard without the is_token_start test.
IsEncodedWordStart_any == Ch = "=" /\ peek_char(Advanced, "?")

IsEncodedWordStart == Ch = "=" /\ parser.is_token_start /\ peek_char(Advanced, "?")

Newline ==
    /\ pc = "scan" /\ Ch = LF
    /\ Becomes(on_newline(Advanced, parser))
    /\ UNCHANGED attempts

Space ==
    /\ pc = "scan" /\ Ch \in Whitespace
    /\ Becomes(on_space(Advanced, parser))
    /\ UNCHANGED attempts

EncodedWordDecoded ==
    /\ pc = "scan" /\ IsEncodedWordStart
    /\ decode_rfc2047(checkpoint(Advanced)).ok
    /\ Becomes(on_encoded_word(Advanced, parser))
    /\ attempts' = attempts \cup {[at |-> offset(Advanced), ok |-> TRUE]}

EncodedWordFailed ==
    /\ pc = "scan" /\ IsEncodedWordStart
    /\ ~decode_rfc2047(checkpoint(Advanced)).ok
    /\ Becomes(on_encoded_word(Advanced, parser))
    /\ attempts' = attempts \cup {[at |-> offset(Advanced), ok |-> FALSE]}

Comma ==
    /\ pc = "scan" /\ Ch = ","
    /\ Becomes(on_comma(Advanced, parser))
    /\ UNCHANGED attempts

CarriageReturn ==
    /\ pc = "scan" /\ Ch = CR
    /\ Becomes(on_cr(Advanced, parser))
    /\ UNCHANGED attempts

Literal ==
    /\ pc = "scan"
    /\ Ch \notin {None, LF, SP, TAB, ",", CR}
    /\ ~IsEncodedWordStart
    /\ Becomes(on_literal(Advanced, parser))
    /\ UNCHANGED attempts

EndOfInput ==
    /\ pc = "scan" /\ Ch = None
    /\ Becomes(on_eof(Advanced, parser))
    /\ UNCHANGED attempts

Next ==
    \/ Newline
    \/ Space
    \/ EncodedWordDecoded
    \/ EncodedWordFailed
    \/ Comma
    \/ CarriageReturn
    \/ Literal
    \/ EndOfInput

Spec == Init /\ [][Next]_vars

\* The inputs of the specification with fairness.
MaxLiveChunks == 2

LiveInputs ==
    { Flatten(cs) \o t : cs \in UNION { [1..n -> Chunks] : n \in 0..MaxLiveChunks },
                         t \in Tails }

LiveInit ==
    /\ stream \in { MessageStream_new(d) : d \in LiveInputs }
    /\ parser = ListParser_new
    /\ result = NoResult
    /\ pc = "scan"
    /\ attempts = {}

\* The loop is sequential code: as long as an iteration can run, it runs.
FairSpec == LiveInit /\ [][Next]_vars /\ WF_vars(Next)

----------------------------------------------------------------------------
(* Vocabulary of the properties                                            *)

Returned == pc \in {"ret_newline", "ret_eof"}

\* What a caller sees of a result: its shape and the texts it holds.
Value(r) == [shape |-> r.shape, texts |-> [i \in DOMAIN r.values |-> r.values[i].text]]

\* The entries completed so far, the one moved into a Text result included.
Entries == IF result.shape = "Text" THEN result.values ELSE parser.list

\* Every fragment sequence of the call: the open one and the completed ones.
FragSeqs == {parser.tokens} \cup { Entries[i].frags : i \in DOMAIN Entries }

Blank == {SP, TAB, LF, CR}

----------------------------------------------------------------------------
(* C1, C2: the end of the input and the shape of the result                *)

\* C1: when the scan reaches the end of the input without an unfolded line
\* break, the open word and the open tokens are flushed and the value returned
\* is the one the same input followed by a line break returns; nothing is left
\* unflushed.
C1_EndOfInputFlushes ==
    pc = "ret_eof" =>
        /\ Value(result) = Value(parse_comma_separared(stream.data \o <<LF>>))
        /\ parser.token_start = 0
        /\ parser.tokens = <<>>

\* C2: on every return the shape follows the number of completed entries:
\* none gives Empty, one gives Text of it, two or more give TextList of them
\* in order.
C2_ShapeFollowsListLength ==
    Returned =>
        /\ Len(Entries) = 0 => result = Empty
        /\ Len(Entries) = 1 => result = Text(Entries[1])
        /\ Len(Entries) >= 2 => result = TextList(Entries)

----------------------------------------------------------------------------
(* C3, C6: what separates the fragments of an entry                        *)

NonSpace(F) == { i \in DOMAIN F : F[i].kind # "space" }

\* i and j are neighbours among the fragments of F that are not injected spaces.
Neighbours(F, i, j) ==
    /\ i \in NonSpace(F) /\ j \in NonSpace(F) /\ i < j
    /\ \A k \in NonSpace(F) : ~(i < k /\ k < j)

\* The text of F between its fragments i and j.
Between(F, i, j) == concat(SubSeq(F, i + 1, j - 1))

\* C3: in an entry, a decoded encoded word and the plain word next to it are
\* separated by exactly one space: the text between the two fragments is one
\* space, the plain word neither starts nor ends with a blank byte, and the
\* text of a completed entry is the concatenation of its fragments.
C3_OneSpaceBetweenWordAndEncoded ==
    /\ \A F \in FragSeqs :
         /\ \A i, j \in DOMAIN F :
              (Neighbours(F, i, j) /\ {F[i].kind, F[j].kind} = {"word", "enc"})
                  => Between(F, i, j) = <<SP>>
         /\ \A i \in DOMAIN F :
              F[i].kind = "word"
                  => /\ F[i].text # <<>>
                     /\ F[i].text[1] \notin Blank
                     /\ F[i].text[Len(F[i].text)] \notin Blank
    /\ \A i \in DOMAIN Entries : Entries[i].text = concat(Entries[i].frags)

\* Only blank bytes lie between the encoded words behind fragments x and y.
BlankGap(x, y) == \A k \in (x.to + 1)..(y.from - 1) : stream.data[k] \in Blank

\* C6: two decoded encoded words of an entry with only whitespace, folds or
\* nothing between them in the input are next to each other in the entry,
\* with no character between them.
C6_EncodedWordsConcatenate ==
    \A F \in FragSeqs :
        \A i, j \in DOMAIN F :
            (i < j /\ F[i].kind = "enc" /\ F[j].kind = "enc" /\ BlankGap(F[i], F[j]))
                => (j = i + 1 /\ Between(F, i, j) = <<>>)

\* Two decoded words with whitespace between them sit in one fragment sequence.
C6_Witness ==
    \E F \in FragSeqs :
        \E i, j \in DOMAIN F :
            /\ i < j /\ F[i].kind = "enc" /\ F[j].kind = "enc"
            /\ F[i].to + 1 < F[j].from
            /\ BlankGap(F[i], F[j])

----------------------------------------------------------------------------
(* C4, C5: folds and runs of whitespace                                    *)

IsFold(data, i) ==
    /\ i \in DOMAIN data /\ data[i] = LF
    /\ i < Len(data) /\ data[i + 1] \in Whitespace

\* The input with the fold at i (the line break and the byte after it)
\* replaced by one space.
ReplaceFold(data, i) ==
    SubSeq(data, 1, i - 1) \o <<SP>> \o SubSeq(data, i + 2, Len(data))

\* The logical line: the bytes before the first line break that is not a fold.
LineEnd(data) ==
    LET ends == { i \in DOMAIN data : data[i] = LF /\ ~IsFold(data, i) }
    IN  IF ends = {} THEN Len(data) ELSE Min(ends) - 1

HasByte(data, b) == \E i \in DOMAIN data : data[i] = b

\* C4: a fold never ends the parse, never puts a line break into an entry,
\* and stands for one space: the input with a fold replaced by one space
\* returns the same value.  (The last part is stated for the folds of the
\* logical line of an input without '=', where the decoder is not involved.)
C4_FoldIsOneSpace ==
    /\ pc = "ret_newline" => ~IsFold(stream.data, stream.pos)
    /\ \A F \in FragSeqs : \A i \in DOMAIN F : ~HasByte(F[i].text, LF)
    /\ (Returned /\ ~HasByte(stream.data, "="))
         => \A i \in 1..LineEnd(stream.data) :
                IsFold(stream.data, i)
                    => Value(parse_comma_separared(ReplaceFold(stream.data, i)))
                           = Value(result)

\* C5: between two plain words of an entry a run of spaces and tabs (with or
\* without folds) leaves exactly one space: the text of an entry made of
\* plain words holds no tab and no two spaces in a row.
C5_WhitespaceRunsCollapse ==
    \A F \in FragSeqs :
        (\A i \in DOMAIN F : F[i].kind # "enc")
            => LET t == concat(F)
               IN  /\ ~HasByte(t, TAB)
                   /\ \A k \in 1..(Len(t) - 1) : ~(t[k] = SP /\ t[k + 1] = SP)

----------------------------------------------------------------------------
(* C7, C10: the entries of a plain input                                   *)

\* The comma-separated segments of the logical line, by their first offset
\* (a segment may be empty: its end is then before its start).
SegmentStarts(data) ==
    {1} \cup { c + 1 : c \in { i \in 1..LineEnd(data) : data[i] = "," } }

SegmentEnd(data, st) ==
    LET cs == { i \in st..LineEnd(data) : data[i] = "," }
    IN  IF cs = {} THEN LineEnd(data) ELSE Min(cs) - 1

\* The segments that hold a byte that is not blank: the entries of the input.
EntryStarts(data) ==
    { st \in SegmentStarts(data) :
        \E i \in st..SegmentEnd(data, st) : data[i] \notin Blank }

\* The k-th entry of the input, in input order.
NthEntryStart(data, k) ==
    CHOOSE st \in EntryStarts(data) :
        Cardinality({ u \in EntryStarts(data) : u <= st }) = k

\* C7: an input with N >= 2 comma-separated entries returns TextList with N
\* elements, the k-th element made from the k-th entry of the input.  (Stated
\* for inputs without '=', whose entries are told apart by the commas alone.)
C7_ListOfNEntries ==
    (Returned /\ ~HasByte(stream.data, "="))
        => LET data == stream.data
               N == Cardinality(EntryStarts(data))
           IN  N >= 2 =>
                   /\ result.shape = "TextList"
                   /\ Len(result.values) = N
                   /\ \A k \in 1..Len(result.values) :
                        LET st == NthEntryStart(data, k)
                            F == result.values[k].frags
                        IN  /\ st <= F[1].from
                            /\ F[Len(F)].to <= SegmentEnd(data, st)

\* C10: an input with exactly one comma-delimited entry returns Text, and
\* the text neither starts nor ends with a whitespace byte of the input.
\* (Stated for inputs without '='.)
C10_SingleEntryIsTrimmedText ==
    (Returned /\ ~HasByte(stream.data, "="))
        => (Cardinality(EntryStarts(stream.data)) = 1
               => /\ result.shape = "Text"
                  /\ LET t == result.values[1].text
                     IN  /\ t # <<>>
                         /\ t[1] \notin Blank
                         /\ t[Len(t)] \notin Blank)

----------------------------------------------------------------------------
(* C8, C9: empty entries and the failed decode                             *)

\* C8: no completed entry, and so no text of the result, is the empty string.
C8_NoEmptyEntry ==
    \A i \in DOMAIN Entries : Entries[i].text # <<>>

\* C9: a '=?' at a word boundary that fails to decode does not end the parse,
\* and its bytes are in the output as they are in the input: once the call
\* has returned, a plain word of the result covers the '=' and is the slice
\* of the input it was cut from.
C9_FailedDecodeIsLiteral ==
    /\ \A a \in attempts : ~a.ok => a.at <= stream.pos
    /\ Returned =>
         \A a \in attempts :
             ~a.ok =>
                 \E i \in DOMAIN result.values :
                     \E k \in DOMAIN result.values[i].frags :
                         LET f == result.values[i].frags[k]
                         IN  /\ f.kind = "word"
                             /\ f.from <= a.at /\ a.at < f.to
                             /\ f.text = SubSeq(stream.data, f.from, f.to)

----------------------------------------------------------------------------
(* C11, C12: carriage returns and blank inputs                             *)

\* C11: a '\r' is dropped wherever it stands: the iteration that reads it
\* changes nothing of the parser, and no text of an entry holds a '\r'.
C11_CarriageReturnDropped ==
    /\ [][(pc = "scan" /\ Ch = CR) => parser' = parser]_vars
    /\ [](\A F \in FragSeqs : \A i \in DOMAIN F : ~HasByte(F[i].text, CR))

\* The logical line ends in a line break and holds blank bytes only.
BlankLine(data) ==
    /\ LineEnd(data) < Len(data)
    /\ \A i \in 1..LineEnd(data) : data[i] \in Blank

\* C12: an input made of spaces, tabs, '\r' and folds, ended by a line break,
\* returns Empty.
C12_BlankInputIsEmpty ==
    (Returned /\ BlankLine(stream.data)) => (pc = "ret_newline" /\ result = Empty)

\* The call has returned for a blank line with a '\r' and a fold in it.
C12_Witness ==
    /\ Returned /\ BlankLine(stream.data)
    /\ \E i, j \in 1..LineEnd(stream.data) :
           stream.data[i] = CR /\ IsFold(stream.data, j)

----------------------------------------------------------------------------
(* C13: termination                                                        *)

\* C13: the call is total: every iteration of the scan moves the cursor
\* forward by at least one byte or returns, whether a decode succeeds or
\* fails, and the call eventually returns Empty, Text or TextList.
C13_Terminates ==
    /\ [][pc = "scan" => (stream'.pos > stream.pos \/ pc' # "scan")]_vars
    /\ <>(Returned /\ result.shape \in {"Empty", "Text", "TextList"})

\* The call has returned after a decode that failed and one that succeeded.
C13_Witness ==
    /\ Returned
    /\ \E a, b \in attempts : ~a.ok /\ b.ok

----------------------------------------------------------------------------
(* C14, C15: the fragments and the bounds of the open word                 *)

\* C14: no fragment sequence, open or completed, holds two injected spaces
\* in a row.
C14_NoTwoSpacesInARow ==
    \A F \in FragSeqs :
        \A i \in 1..(Len(F) - 1) : ~(F[i].kind = "space" /\ F[i + 1].kind = "space")

\* A fragment sequence holds a space injected after a plain word, with the
\* decoded word it was injected for behind it.
C14_Witness ==
    \E F \in FragSeqs :
        \E i \in DOMAIN F :
            /\ 1 < i /\ i < Len(F)
            /\ F[i - 1].kind = "word" /\ F[i].kind = "space" /\ F[i + 1].kind = "enc"

\* C15: while a word is open, token_end >= token_start - 1 and token_end is
\* within the input, so the slice add_token takes is in bounds; the slices
\* already taken were in bounds too.
C15_OpenWordInBounds ==
    /\ parser.token_start # 0 =>
         /\ parser.token_start >= 1
         /\ parser.token_end >= parser.token_start - 1
         /\ parser.token_end <= Len(stream.data)
    /\ \A F \in FragSeqs : \A i \in DOMAIN F :
         F[i].kind = "word" =>
             (1 <= F[i].from /\ F[i].from - 1 <= F[i].to /\ F[i].to <= Len(stream.data))

\* A word was opened by the '=' of a failed decode after the decoder had moved
\* the cursor further.
C15_Witness ==
    /\ parser.token_start # 0
    /\ \E a \in attempts : ~a.ok /\ a.at = parser.token_start /\ a.at = parser.token_end
    /\ stream.pos + 1 < Len(stream.data)

----------------------------------------------------------------------------
(* C16, C17, C18: what an iteration changes                                *)

\* C16: the completed entries only grow: an iteration leaves them as they
\* are, or it reads a comma or the terminating line break and appends one
\* entry after the ones already there, which stay as they were.
C16_ListAppendOnly ==
    [][ \/ Entries' = Entries
        \/ /\ pc = "scan"
           /\ Ch = "," \/ (Ch = LF /\ pc' = "ret_newline")
           /\ Len(Entries') = Len(Entries) + 1
           /\ SubSeq(Entries', 1, Len(Entries)) = Entries ]_vars

\* The call returned a list whose last entry the terminating line break closed.
C16_Witness ==
    /\ pc = "ret_newline" /\ Len(Entries) >= 2
    /\ LET F == Entries[Len(Entries)].frags
       IN  F[Len(F)].to = LineEnd(stream.data)

\* C17: a decode attempt is settled within its iteration.  One that fails
\* leaves the cursor just past the '=' (the position the checkpoint saved),
\* leaves tokens and list as they were, and has the '=' taken as a literal
\* byte of a word; one that succeeds leaves the cursor past the encoded word.
C17_FailedDecodeOnlyLiteral ==
    [][ \A a \in attempts' \ attempts :
          /\ a.at = stream.pos + 1
          /\ stream'.restore_pos = a.at
          /\ IF a.ok
             THEN stream'.pos > a.at
             ELSE /\ stream'.pos = a.at
                  /\ parser'.tokens = parser.tokens
                  /\ parser'.list = parser.list
                  /\ parser'.token_end = a.at
                  /\ parser'.token_start =
                         IF parser.token_start = 0 THEN a.at ELSE parser.token_start
                  /\ parser'.is_token_start = FALSE
                  /\ pc' = "scan" /\ result' = result ]_vars

\* A decode has just failed with fragments in tokens and bytes left to read.
C17_Witness ==
    /\ pc = "scan" /\ parser.tokens # <<>>
    /\ \E a \in attempts : ~a.ok /\ a.at = stream.pos
    /\ stream.pos + 1 < Len(stream.data)

\* C18: the iteration that reads a comma leaves tokens empty and no word
\* open, and no byte of an entry is part of a later entry (or of the open
\* tokens): the fragments of an entry come from before those of the next.
C18_CommaClosesEntry ==
    /\ [][(pc = "scan" /\ Ch = ",")
             => (parser'.tokens = <<>> /\ parser'.token_start = 0)]_vars
    /\ [](\A i \in DOMAIN Entries :
            LET F == Entries[i].frags
                Later == { Entries[j].frags : j \in (i + 1)..Len(Entries) }
                             \cup {parser.tokens}
            IN  \A G \in Later : \A x \in NonSpace(F) : \A y \in NonSpace(G) :
                    F[x].to < G[y].from)

\* A comma has just closed an entry of several fragments.
C18_Witness ==
    /\ pc = "scan" /\ stream.pos >= 1 /\ stream.data[stream.pos] = ","
    /\ parser.tokens = <<>> /\ parser.token_start = 0
    /\ Len(parser.list) >= 1
    /\ LET F == parser.list[Len(parser.list)].frags
       IN  Len(F) >= 3 /\ F[Len(F)].to = stream.pos - 1

----------------------------------------------------------------------------
(* C19, C20: where the decoder is called and where the scan stops          *)

\* The offsets before q whose byte is not a '\r'.
BeforeSkippingCR(q) == { k \in 1..(q - 1) : stream.data[k] # CR }

Max(S) == CHOOSE x \in S : \A y \in S : x >= y

\* The byte at q starts a word: nothing but '\r' lies before it, or the byte
\* before it ('\r' skipped) is a space, a tab, a comma, a line break or the
\* last byte of an encoded word that was decoded.
AtWordStart(q) ==
    LET B == BeforeSkippingCR(q)
    IN  \/ B = {}
        \/ stream.data[Max(B)] \in {SP, TAB, ",", LF}
        \/ \E F \in FragSeqs : \E i \in DOMAIN F :
               F[i].kind = "enc" /\ F[i].to = Max(B)

\* C19: the decoder is called only for a '=' that is followed by '?' and
\* read while is_token_start is true, which is a '=' at the start of a word:
\* a '=?' inside a word is never handed to the decoder and stays literal.
C19_DecoderOnlyAtWordStart ==
    /\ [][attempts' # attempts
             => (parser.is_token_start /\ Ch = "=" /\ peek_char(Advanced, "?"))]_vars
    /\ [](\A a \in attempts :
             /\ stream.data[a.at] = "=" /\ stream.data[a.at + 1] = "?"
             /\ AtWordStart(a.at))

\* A plain word holds a well-formed encoded word that was not decoded.
C19_Witness ==
    \E F \in FragSeqs : \E i \in DOMAIN F :
        /\ F[i].kind = "word"
        /\ \E k \in (F[i].from + 1)..(F[i].to - 4) :
               /\ SubSeq(stream.data, k, k + 4) = <<"=", "?", "a", "?", "=">>
               /\ \A a \in attempts : a.at # k

====
